---- MODULE Spec2Model ----
(***************************************************************************)
(* The auto-correct plugin of src/main.ts as a state machine.              *)
(*                                                                         *)
(* JavaScript runs each handler to its next `await` without interruption,  *)
(* so one action is one such run: from the command callback to the first   *)
(* requestUrl, from a response to the next backoff timer or to the end of  *)
(* autoCorrectText, from a fired timer to the next requestUrl.             *)
(*                                                                         *)
(* Strings are sequences of one-character strings.  The separator literal  *)
(* '---CHANGES---' is kept as a multi-character, self-overlapping token in *)
(* a three-character alphabet: a dash, a letter and a blank.               *)
(***************************************************************************)
EXTENDS Integers, Sequences, FiniteSets, TLC

\* ------------------------------------------------------------- bounds
MaxInvocations == 2
MaxContentLen == 4
MaxDocLen == 1

\* ------------------------------------------------------------ strings
Whitespace == {" "}
Alphabet == {"-", "C", " "}

StringsUpTo(n) == UNION {[1..k -> Alphabet] : k \in 0..n}

\* The literal the prompt asks for and the response is split on.
Separator == <<"-", "-">>

\* JavaScript truthiness of a string: only '' is falsy.
IsFalsy(s) == s = <<>>

RECURSIVE TrimStart(_)
TrimStart(s) ==
    IF s # <<>> /\ Head(s) \in Whitespace THEN TrimStart(Tail(s)) ELSE s

RECURSIVE TrimEnd(_)
TrimEnd(s) ==
    IF s # <<>> /\ s[Len(s)] \in Whitespace
    THEN TrimEnd(SubSeq(s, 1, Len(s) - 1))
    ELSE s

\* String.prototype.trim
\* A trim of the front only, for the sensitivity of C18.
TrimLeadingOnly(s) == TrimStart(s)

Trim(s) == TrimEnd(TrimStart(s))

MatchesAt(s, sep, q) ==
    /\ q + Len(sep) - 1 <= Len(s)
    /\ SubSeq(s, q, q + Len(sep) - 1) = sep

\* String.prototype.split with a non-empty string separator: p is where the
\* current part starts, q the position scanned; matches are taken leftmost
\* and do not overlap.
RECURSIVE SplitFrom(_, _, _, _)
SplitFrom(s, sep, p, q) ==
    IF q + Len(sep) - 1 > Len(s)
    THEN <<SubSeq(s, p, Len(s))>>
    ELSE IF MatchesAt(s, sep, q)
         THEN <<SubSeq(s, p, q - 1)>> \o SplitFrom(s, sep, q + Len(sep), q + Len(sep))
         ELSE SplitFrom(s, sep, p, q + 1)

\* A split at the last occurrence of the separator only, as
\* lastIndexOf and two slices would make, for the sensitivity of C15.
SplitAtLast(s, sep) ==
    LET at == {q \in 1..Len(s) : MatchesAt(s, sep, q)}
    IN  IF at = {} THEN <<s>>
        ELSE LET q == CHOOSE m \in at : \A n \in at : n <= m
             IN  <<SubSeq(s, 1, q - 1), SubSeq(s, q + Len(sep), Len(s))>>

Split(s, sep) == SplitFrom(s, sep, 1, 1)

\* const [corrected, changes] = parts: the first two elements, undefined
\* where the array is shorter.
Undefined == <<"undefined">>
Destructure2(parts) ==
    [corrected |-> IF Len(parts) >= 1 THEN parts[1] ELSE Undefined,
     changes   |-> IF Len(parts) >= 2 THEN parts[2] ELSE Undefined]

\* ----------------------------------------------------- the orchestrator
maxRetries == 3

\* A constant backoff, for the sensitivity of C2.
BackoffDelayConstant(attempt) == 1000

\* setTimeout(resolve, 1000 * attempt), in milliseconds
BackoffDelay(attempt) == 1000 * attempt

\* The key check left out, for the sensitivity of C1.
CredentialNeverMissing(apiKey) == FALSE

\* if (!apiKey) throw ...
CredentialMissing(apiKey) == IsFalsy(apiKey)

\* A retry decided by the loop bound alone, for the sensitivity of C16.
MayRetryWithinLoop(attempt) == attempt <= maxRetries

\* attempt < maxRetries: wait and go round the loop again; else throw
MayRetry(attempt) == attempt < maxRetries

NoResult == [corrected |-> Undefined, changes |-> Undefined]

\* A parse that takes a missing half for an empty one, as
\* (changes || '').trim() would, for the sensitivity of C7.
ParseResponseLenient(content) ==
    IF content = Undefined
    THEN [ok |-> FALSE, value |-> NoResult]
    ELSE LET d == Destructure2(Split(content, Separator))
         IN  [ok |-> TRUE,
              value |-> [corrected |-> Trim(d.corrected),
                         changes   |-> IF d.changes = Undefined THEN <<>>
                                       ELSE Trim(d.changes)]]

\* Lines 147-150: split, destructure, trim both halves.  Calling .split or
\* .trim on undefined throws a TypeError, which the catch of the loop takes.
ParseResponse(content) ==
    IF content = Undefined
    THEN [ok |-> FALSE, value |-> NoResult]
    ELSE LET d == Destructure2(Split(content, Separator))
         IN  IF d.corrected = Undefined \/ d.changes = Undefined
             THEN [ok |-> FALSE, value |-> NoResult]
             ELSE [ok |-> TRUE,
                   value |-> [corrected |-> Trim(d.corrected),
                              changes   |-> Trim(d.changes)]]

\* The try block of one attempt, given what requestUrl did: it threw, or it
\* resolved with a status and (for a 200) a message content.
StatusOk(status) == status = 200

AttemptOutcome(r) ==
    IF r.threw THEN [ok |-> FALSE, value |-> NoResult]
    ELSE IF ~StatusOk(r.status) THEN [ok |-> FALSE, value |-> NoResult]
    ELSE ParseResponse(r.content)

\* What the endpoint can answer.
Contents == StringsUpTo(MaxContentLen)

Responses ==
    {[threw |-> TRUE, status |-> 0, content |-> Undefined]}
    \cup {[threw |-> FALSE, status |-> 500, content |-> Undefined]}
    \cup {[threw |-> FALSE, status |-> 200, content |-> c] :
             c \in Contents \cup {Undefined}}

\* ------------------------------------------------------------ the editor
GetValue(e) == e.value
GetSelection(e) == SubSeq(e.value, e.from + 1, e.to)

\* setValue replaces the whole text; the host keeps the selection inside it.
Min(a, b) == IF a <= b THEN a ELSE b
SetValue(e, s) ==
    [value |-> s, from |-> Min(e.from, Len(s)), to |-> Min(e.to, Len(s)),
     writes |-> e.writes + 1]

\* replaceSelection writes over the range selected now and leaves the cursor
\* behind the inserted text.
ReplaceSelection(e, s) ==
    [value |-> SubSeq(e.value, 1, e.from) \o s
                 \o SubSeq(e.value, e.to + 1, Len(e.value)),
     from  |-> e.from + Len(s),
     to    |-> e.from + Len(s),
     writes |-> e.writes + 1]

\* Both commands writing through replaceSelection, for the sensitivity of C10.
ApplyCorrectionToSelection(e, selectionOnly, corrected) ==
    ReplaceSelection(e, corrected)

\* Lines 70-74
ApplyCorrection(e, selectionOnly, corrected) ==
    IF selectionOnly THEN ReplaceSelection(e, corrected) ELSE SetValue(e, corrected)

\* ---------------------------------------------------- status bar, timer
Null == 0

\* The messages stand for their templates: scope, word count, model name and
\* elapsed time are not kept.
ProcessingMessage == "Processing file/selection, please wait..."
SuccessMessage == "auto-corrected successfully"
ErrorMessage == "Error during auto-correction. Please check your API key and try again."

\* `Processing${'.'.repeat(dots)}`
ProcessingText(dots) ==
    CASE dots = 0 -> "Processing"
      [] dots = 1 -> "Processing."
      [] dots = 2 -> "Processing.."
      [] OTHER    -> "Processing..."

\* updateStatusBar: set the text, schedule a clearing timeout.
UpdateStatusBar(u, message) ==
    [u EXCEPT !.statusText = message, !.pendingClears = @ + 1]

ClearInterval(u, id) ==
    [u EXCEPT !.liveTimers = @ \ {id}, !.dots = [@ EXCEPT ![id] = 0]]

\* A start that sets its timer without clearing the one the field holds, for
\* the sensitivity of C19.
StartProcessingIndicatorUnguarded(u, id) ==
    [u EXCEPT !.liveTimers = @ \cup {id}, !.processingIndicator = id]

\* startProcessingIndicator: clear the timer the field holds, set a new one.
\* The timer an invocation sets is named by the invocation.
StartProcessingIndicator(u, id) ==
    LET c == IF u.processingIndicator # Null
             THEN ClearInterval(u, u.processingIndicator)
             ELSE u
    IN  [c EXCEPT !.liveTimers = @ \cup {id}, !.processingIndicator = id]

\* A stop that leaves the timer alone, for the sensitivity of C5.
StopProcessingIndicatorNoop(u) == u

\* stopProcessingIndicator
StopProcessingIndicator(u) ==
    IF u.processingIndicator # Null
    THEN [ClearInterval(u, u.processingIndicator)
            EXCEPT !.processingIndicator = Null, !.statusText = ""]
    ELSE u

\* ------------------------------------------------------------- the state
VARIABLES
    settings,   \* this.settings
    editor,     \* the editor a command is given: its text, the selected range
                \* [from, to) and the number of writes made to it
    ui,         \* the status bar item's text, this.processingIndicator, the
                \* interval timers alive with their dot counters, and the
                \* number of clearing timeouts of updateStatusBar not yet fired
    inv         \* per invocation of autoCorrectText: where it is suspended,
                \* its locals, and a record of what it has done so far

vars == <<settings, editor, ui, inv>>

Invocations == 1..MaxInvocations

ApiKeys == {<<>>, <<"C">>}

KeyboardLayouts == {"QWERTY", "AZERTY", "DVORAK", "COLEMAK"}

Models == {"gpt-3.5-turbo", "gpt-4o-mini"}

\* DEFAULT_SETTINGS
DefaultSettings ==
    [apiKey |-> <<>>, keyboardLayout |-> "QWERTY", model |-> "gpt-3.5-turbo"]

Idle ==
    [pc |-> "idle", outcome |-> "none", selectionOnly |-> FALSE,
     text |-> <<>>, apiKey |-> <<>>, attempt |-> 0,
     requests |-> 0, delays |-> <<>>,
     lastResp |-> [threw |-> FALSE, status |-> 0, hasSep |-> FALSE, parts |-> 0,
                  content |-> Undefined],
     thrown |-> "none", result |-> NoResult,
     writes |-> 0, modals |-> 0, notices |-> <<>>, docAtStart |-> <<>>,
     fromAtStart |-> 0, toAtStart |-> 0, statuses |-> <<>>, exit |-> "none",
     keyboardLayout |-> "none", sent |-> {}, statusAtReturn |-> "none",
     indicatorStarted |-> FALSE, indicatorAtResult |-> "none",
     writesByOthers |-> 0]

Init ==
    /\ settings \in {[DefaultSettings EXCEPT !.apiKey = k] : k \in ApiKeys}
    /\ editor \in {[value |-> v, from |-> f, to |-> t, writes |-> 0] :
                     v \in StringsUpTo(MaxDocLen), f \in 0..MaxDocLen, t \in 0..MaxDocLen}
    /\ editor.from <= editor.to
    /\ editor.to <= Len(editor.value)
    /\ ui = [statusText |-> "", processingIndicator |-> Null, liveTimers |-> {},
             dots |-> [t \in Invocations |-> 0], pendingClears |-> 0]
    /\ inv = [i \in Invocations |-> Idle]

\* ------------------------------------------------- autoCorrectText, end
\* The write moved out of the try block, for the sensitivity of C3.
AppliedRegardless(e, selectionOnly, out) ==
    ApplyCorrection(e, selectionOnly, IF out.ok THEN out.value.corrected ELSE <<>>)

\* Lines 70-74 are reached only when the awaited call resolved.
Applied(e, selectionOnly, out) ==
    IF out.ok THEN ApplyCorrection(e, selectionOnly, out.value.corrected) ELSE e

\* Line 79 likewise.
ModalsOpened(out) == IF out.ok THEN 1 ELSE 0

\* Lines 75-77 or 81-83, then the finally block: the notice and the status
\* message are emitted first, the indicator is stopped after them.
Report(u, out) ==
    LET emitted == UpdateStatusBar(u, IF out.ok THEN SuccessMessage ELSE ErrorMessage)
    IN  [indicatorAtResult |->
             IF emitted.processingIndicator # Null THEN "running" ELSE "stopped",
         ui |-> StopProcessingIndicator(emitted),
         message |-> <<IF out.ok THEN SuccessMessage ELSE ErrorMessage>>]

\* A catch that lets the missing-key error through, for the sensitivity of C12.
CaughtUnlessMissingKey(error) == error # "MissingCredential"

\* catch (error) at line 80 has no filter: it takes whatever was thrown.
Caught(error) == TRUE

\* An error the catch does not take skips lines 81-83; the finally block runs
\* all the same and the error goes on to the caller.
Unreported(u) ==
    [indicatorAtResult |-> "none", ui |-> StopProcessingIndicator(u),
     message |-> <<>>]

\* What is left of autoCorrectText once the call of callLLMForCorrection has
\* settled with `out` (lines 66-86), for invocation i whose record is rec.
Finish(i, rec, u, out) ==
    LET e == Applied(editor, rec.selectionOnly, out)
        caught == out.ok \/ Caught(rec.thrown)
        r == IF caught THEN Report(u, out) ELSE Unreported(u)
        n == e.writes - editor.writes
    IN  /\ editor' = e
        /\ ui' = r.ui
        /\ inv' = [j \in Invocations |->
             IF j = i
             THEN [rec EXCEPT
                     !.pc = "done",
                     !.outcome = IF out.ok THEN "success" ELSE "failure",
                     !.result = out.value,
                     !.writes = @ + n,
                     !.modals = @ + ModalsOpened(out),
                     !.notices = @ \o r.message,
                     !.statuses = @ \o r.message,
                     !.exit = IF caught THEN "returned" ELSE "threw",
                     !.statusAtReturn = r.ui.statusText,
                     !.indicatorAtResult = r.indicatorAtResult]
             ELSE IF inv[j].pc \in {"request", "backoff"}
                  THEN [inv[j] EXCEPT !.writesByOthers = @ + n]
                  ELSE inv[j]]
        /\ UNCHANGED settings

Failed == [ok |-> FALSE, value |-> NoResult]

\* Line 161, behind the loop.
FallThrough == [ok |-> TRUE, value |-> [corrected |-> <<>>, changes |-> <<>>]]

\* The request of one attempt (lines 129-141): the key is the constant read at
\* line 117, the layout is in the prompt built at line 122, before the loop,
\* and the model is this.settings.model as it is when the attempt starts.
Request(apiKey, keyboardLayout, now) ==
    [apiKey |-> apiKey, keyboardLayout |-> keyboardLayout, model |-> now.model]

\* ----------------------------------------------- the command callbacks
\* autoCorrectText up to its first suspension: the empty-text return, the
\* missing-key throw (caught and reported before anything else can run), or the
\* first requestUrl.
AutoCorrectText(i, selectionOnly) ==
    /\ inv[i].pc = "idle"
    /\ \A j \in 1..(i - 1) : inv[j].pc # "idle"
    /\ LET text == IF selectionOnly THEN GetSelection(editor) ELSE GetValue(editor)
           rec  == [inv[i] EXCEPT !.selectionOnly = selectionOnly, !.text = text,
                                  !.docAtStart = editor.value,
                                  !.fromAtStart = IF selectionOnly THEN editor.from ELSE 0,
                                  !.toAtStart = IF selectionOnly THEN editor.to ELSE 0]
       IN  IF IsFalsy(text)
           THEN /\ inv' = [inv EXCEPT ![i] =
                             [rec EXCEPT !.pc = "done", !.outcome = "empty",
                                         !.exit = "returned",
                                         !.notices = <<"No text to correct">>]]
                /\ UNCHANGED <<settings, editor, ui>>
           ELSE LET u == StartProcessingIndicator(
                             UpdateStatusBar(ui, ProcessingMessage), i)
                    run == [rec EXCEPT !.notices = <<ProcessingMessage>>,
                                       !.statuses = <<ProcessingMessage>>,
                                       !.indicatorStarted = TRUE,
                                       !.apiKey = settings.apiKey]
                IN  IF CredentialMissing(settings.apiKey)
                    THEN Finish(i, [run EXCEPT !.thrown = "MissingCredential"], u, Failed)
                    ELSE /\ inv' = [inv EXCEPT ![i] =
                                      [run EXCEPT
                                         !.pc = "request", !.attempt = 1,
                                         !.requests = 1,
                                         !.keyboardLayout = settings.keyboardLayout,
                                         !.sent = {Request(settings.apiKey,
                                                           settings.keyboardLayout,
                                                           settings)}]]
                         /\ ui' = u
                         /\ UNCHANGED <<settings, editor>>

\* ------------------------------------------------- callLLMForCorrection
LoopContinues(attempt) == attempt <= maxRetries

Contains(s, sep) == \E q \in 1..Len(s) : MatchesAt(s, sep, q)

Summary(r) ==
    [threw |-> r.threw, status |-> r.status,
     hasSep |-> r.content # Undefined /\ Contains(r.content, Separator),
     parts |-> IF r.content = Undefined THEN 0 ELSE Len(Split(r.content, Separator)),
     content |-> Undefined]

\* The endpoint's answers by what the try block makes of them: what the
\* invocation records of the answer, and the result or the exception.
Settlements ==
    {[resp |-> Summary(r), out |-> AttemptOutcome(r)] : r \in Responses}

\* requestUrl settles: the rest of the try block, then either the return (and
\* with it the rest of autoCorrectText), the backoff timer, or the final throw.
RequestSettles(i, s) ==
    /\ inv[i].pc = "request"
    /\ LET rec == [inv[i] EXCEPT !.lastResp = s.resp]
       IN  IF s.out.ok
           THEN Finish(i, rec, ui, s.out)
           ELSE IF MayRetry(rec.attempt)
                THEN /\ inv' = [inv EXCEPT ![i] =
                                  [rec EXCEPT !.pc = "backoff",
                                              !.delays = Append(@, BackoffDelay(rec.attempt))]]
                     /\ UNCHANGED <<settings, editor, ui>>
                ELSE Finish(i, [rec EXCEPT !.thrown = "CorrectionFailed"], ui, Failed)

\* A promise whose resolve is never handed to a timer, for the sensitivity
\* of C17.
TimerNeverFires(delay) == FALSE

\* setTimeout(resolve, delay) at line 155 calls resolve once delay
\* milliseconds have passed.
TimerFires(delay) == delay \in Nat

\* The backoff timer fires: attempt++, the loop test, the next requestUrl.
BackoffElapses(i) ==
    /\ inv[i].pc = "backoff"
    /\ TimerFires(inv[i].delays[Len(inv[i].delays)])
    /\ LET next == inv[i].attempt + 1
       IN  IF LoopContinues(next)
           THEN /\ inv' = [inv EXCEPT ![i] =
                             [@ EXCEPT !.pc = "request", !.attempt = next,
                                       !.requests = @ + 1,
                                       !.sent = @ \cup {Request(inv[i].apiKey,
                                                                inv[i].keyboardLayout,
                                                                settings)}]]
                /\ UNCHANGED <<settings, editor, ui>>
           ELSE Finish(i, [inv[i] EXCEPT !.attempt = next], ui, FallThrough)

\* ---------------------------------------------------------- the timers
\* The interval callback of startProcessingIndicator.
IndicatorTick(t) ==
    /\ t \in ui.liveTimers
    /\ LET d == (ui.dots[t] + 1) % 4
       IN  ui' = [ui EXCEPT !.dots = [@ EXCEPT ![t] = d],
                            !.statusText = ProcessingText(d)]
    /\ UNCHANGED <<settings, editor, inv>>

\* The timeout of updateStatusBar.
StatusBarClears ==
    /\ ui.pendingClears > 0
    /\ ui' = [ui EXCEPT !.statusText = "", !.pendingClears = @ - 1]
    /\ UNCHANGED <<settings, editor, inv>>

\* -------------------------------------------------------------- the user
\* The API key field of the settings tab.
SetApiKey(value) ==
    /\ settings.apiKey # value
    /\ settings' = [settings EXCEPT !.apiKey = value]
    /\ UNCHANGED <<editor, ui, inv>>

\* The keyboard layout dropdown.
SetKeyboardLayout(value) ==
    /\ settings.keyboardLayout # value
    /\ settings' = [settings EXCEPT !.keyboardLayout = value]
    /\ UNCHANGED <<editor, ui, inv>>

\* The model dropdown.
SetModel(value) ==
    /\ settings.model # value
    /\ settings' = [settings EXCEPT !.model = value]
    /\ UNCHANGED <<editor, ui, inv>>

\* The user moves the cursor or selects another range.
Select(f, t) ==
    /\ f <= t
    /\ t <= Len(editor.value)
    /\ <<f, t>> # <<editor.from, editor.to>>
    /\ editor' = [editor EXCEPT !.from = f, !.to = t]
    /\ UNCHANGED <<settings, ui, inv>>

\* One run of a command, from the key press to the return of autoCorrectText,
\* with the timers and the user acting at every suspension.
Next ==
    \/ \E selectionOnly \in BOOLEAN : AutoCorrectText(1, selectionOnly)
    \/ \E s \in Settlements : RequestSettles(1, s)
    \/ BackoffElapses(1)
    \/ \E t \in Invocations : IndicatorTick(t)
    \/ StatusBarClears
    \/ \E value \in ApiKeys : SetApiKey(value)
    \/ \E f, t \in 0..Len(editor.value) : Select(f, t)

Spec == Init /\ [][Next]_vars

\* The answers used when commands overlap: the transport fails, or the model
\* answers with a corrected text and a change log.
OverlapSettlements ==
    {[resp |-> Summary(r), out |-> AttemptOutcome(r)] :
        r \in {a \in Responses : a.threw \/ a.content = <<"C", "-", "-", "C">>}}

\* The commands are triggered again while earlier runs are suspended: any
\* pending request or timer of any invocation may be the next to complete.
NextOverlap ==
    \/ \E i \in Invocations, selectionOnly \in BOOLEAN : AutoCorrectText(i, selectionOnly)
    \/ \E i \in Invocations, s \in OverlapSettlements : RequestSettles(i, s)
    \/ \E i \in Invocations : BackoffElapses(i)
    \/ \E t \in Invocations : IndicatorTick(t)
    \/ StatusBarClears

\* Overlap is a matter of the indicator and the status bar, which no document
\* text reaches: the runs start from the one-character document, with any
\* selection in it (the empty one included) and the key set or not.
InitOverlap == Init /\ editor.value = <<"C">>

SpecOverlap == InitOverlap /\ [][NextOverlap]_vars

\* Every request is answered or fails, and every backoff timer fires.
FairOverlap ==
    /\ SpecOverlap
    /\ \A i \in Invocations :
          /\ WF_vars(\E s \in OverlapSettlements : RequestSettles(i, s))
          /\ WF_vars(BackoffElapses(i))

\* The answers with the message content kept in the invocation's record.
AnswerSettlements ==
    {[resp |-> [Summary(r) EXCEPT !.content = r.content],
      out  |-> AttemptOutcome(r)] : r \in Responses}

\* One run of a command, answer by answer.
NextAnswers ==
    \/ \E selectionOnly \in BOOLEAN : AutoCorrectText(1, selectionOnly)
    \/ \E s \in AnswerSettlements : RequestSettles(1, s)
    \/ BackoffElapses(1)

\* What callLLMForCorrection returns depends on the answers alone: the runs
\* start with the key set and the one-character document.
InitAnswers == Init /\ editor.value = <<"C">> /\ ~CredentialMissing(settings.apiKey)

SpecAnswers == InitAnswers /\ [][NextAnswers]_vars

\* One run of a command while the settings tab is used.
NextSettings ==
    \/ \E selectionOnly \in BOOLEAN : AutoCorrectText(1, selectionOnly)
    \/ \E s \in Settlements : RequestSettles(1, s)
    \/ BackoffElapses(1)
    \/ \E value \in ApiKeys : SetApiKey(value)
    \/ \E value \in KeyboardLayouts : SetKeyboardLayout(value)
    \/ \E value \in Models : SetModel(value)

SpecSettings == Init /\ [][NextSettings]_vars

\* ------------------------------------------------------------ the claims
Called(i) == inv[i].pc # "idle" /\ inv[i].outcome # "empty"

Processing(i) == inv[i].pc \in {"request", "backoff"}

Unwritten(i) ==
    /\ inv[i].writes = 0
    /\ inv[i].writesByOthers = 0 => editor.value = inv[i].docAtStart

IsTrimmed(s) == s = <<>> \/ (Head(s) \notin Whitespace /\ s[Len(s)] \notin Whitespace)

\* C1: a call of callLLMForCorrection made with an empty API key ends at once
\* with the missing-key error: no request was issued, no backoff waited, no
\* attempt counted, and the document is as it was.
C1_MissingKeyFailsFast ==
    \A i \in Invocations :
        (Called(i) /\ inv[i].apiKey = <<>>) =>
            /\ inv[i].pc = "done"
            /\ inv[i].thrown = "MissingCredential"
            /\ inv[i].requests = 0
            /\ inv[i].attempt = 0
            /\ inv[i].delays = <<>>
            /\ Unwritten(i)

C1_Witness ==
    \E i \in Invocations :
        /\ inv[i].thrown = "MissingCredential"
        /\ inv[i].text # <<>>
        /\ inv[i].apiKey = <<>>

\* C2: a call whose attempts all failed made exactly 3 requests, waited 1000 ms
\* and then 2000 ms between them and nothing after the third, and ended with
\* the retry-exhausted error.
C2_ThreeAttemptsThenExhausted ==
    \A i \in Invocations :
        (inv[i].pc = "done" /\ Called(i) /\ inv[i].apiKey # <<>>
           /\ inv[i].outcome # "success") =>
            /\ inv[i].requests = 3
            /\ inv[i].delays = <<1000, 2000>>
            /\ inv[i].thrown = "CorrectionFailed"

C2_Witness ==
    \E i \in Invocations :
        /\ inv[i].thrown = "CorrectionFailed"
        /\ inv[i].requests = 3
        /\ inv[i].lastResp.status = 500

\* C3: an invocation whose call of callLLMForCorrection failed has written
\* nothing to the document, which still reads as when the invocation began,
\* and has opened no changes modal.
C3_FailureLeavesDocument ==
    \A i \in Invocations :
        inv[i].outcome = "failure" =>
            /\ Unwritten(i)
            /\ inv[i].modals = 0

C3_Witness ==
    \E i \in Invocations :
        /\ inv[i].outcome = "failure"
        /\ inv[i].thrown = "CorrectionFailed"
        /\ inv[i].lastResp.threw
        /\ inv[i].docAtStart # <<>>

\* C4: in an invocation that started the indicator, the indicator is already
\* stopped when the final notice and status message are emitted.
C4_StoppedBeforeResult ==
    \A i \in Invocations :
        (inv[i].pc = "done" /\ inv[i].indicatorStarted) =>
            inv[i].indicatorAtResult = "stopped"

\* C5: in a run of one invocation the indicator has been started whenever a
\* request has been issued, a timer is alive exactly while the invocation is
\* suspended in callLLMForCorrection, and none is alive (and the field is null)
\* once autoCorrectText has returned, however it ended.
C5_IndicatorBracketsProcessing ==
    /\ inv[1].requests > 0 => inv[1].indicatorStarted
    /\ Processing(1) => (ui.liveTimers = {1} /\ ui.processingIndicator = 1)
    /\ ~Processing(1) => (ui.liveTimers = {} /\ ui.processingIndicator = Null)

C5_Witness ==
    /\ inv[1].pc = "done"
    /\ inv[1].indicatorStarted
    /\ inv[1].requests = 3
    /\ ui.liveTimers = {}

\* C6: an invocation whose text is empty or all whitespace issues no request,
\* does not start the indicator and ends with the nothing-to-correct notice.
C6_BlankTextIsNoOp ==
    \A i \in Invocations :
        (inv[i].pc # "idle" /\ Trim(inv[i].text) = <<>>) =>
            /\ inv[i].outcome = "empty"
            /\ inv[i].requests = 0
            /\ ~inv[i].indicatorStarted

\* The answer last received had status 200 and no separator in its content.
NoSeparatorAnswer(i) ==
    /\ ~inv[i].lastResp.threw
    /\ inv[i].lastResp.status = 200
    /\ ~inv[i].lastResp.hasSep

\* C7: when the answer last received had status 200 and a content without the
\* separator, nothing was returned from it: the call is waiting the backoff of
\* that attempt, has gone on to the next attempt, or has ended with the
\* retry-exhausted error after 3 requests.
C7_MissingSeparatorIsRetried ==
    \A i \in Invocations :
        NoSeparatorAnswer(i) =>
            /\ inv[i].outcome # "success"
            /\ inv[i].result = NoResult
            /\ inv[i].requests <= 3
            /\ inv[i].pc = "backoff" =>
                   /\ inv[i].attempt < 3
                   /\ inv[i].delays[Len(inv[i].delays)] = 1000 * inv[i].attempt
            /\ inv[i].pc = "request" => inv[i].attempt = Len(inv[i].delays) + 1
            /\ inv[i].pc = "done" =>
                   /\ inv[i].thrown = "CorrectionFailed"
                   /\ inv[i].requests = 3

C7_Witness ==
    \E i \in Invocations :
        /\ NoSeparatorAnswer(i)
        /\ inv[i].pc = "done"
        /\ inv[i].thrown = "CorrectionFailed"

\* C8: an answer of status 200 whose content does not split into exactly two
\* parts is not returned as a result.
C8_NotTwoPartsIsRetried ==
    \A i \in Invocations :
        (~inv[i].lastResp.threw /\ inv[i].lastResp.status = 200
           /\ inv[i].lastResp.parts # 2) =>
            inv[i].outcome # "success"

\* C9: both halves of a returned result are non-empty and carry no blank at
\* either end.
C9_ResultNonEmptyTrimmed ==
    \A i \in Invocations :
        inv[i].outcome = "success" =>
            /\ inv[i].result.corrected # <<>>
            /\ inv[i].result.changes # <<>>
            /\ IsTrimmed(inv[i].result.corrected)
            /\ IsTrimmed(inv[i].result.changes)

\* The writes of invocations 1..n together.
RECURSIVE WritesOf(_)
WritesOf(n) == IF n = 0 THEN 0 ELSE inv[n].writes + WritesOf(n - 1)

\* C10: an invocation writes the document once if it succeeded and never
\* otherwise, and not while it is suspended in callLLMForCorrection; all
\* writes are the invocations'; after a successful whole-file invocation the
\* document is the corrected text.
C10_OneWriteOnSuccess ==
    /\ editor.writes = WritesOf(MaxInvocations)
    /\ \A i \in Invocations :
        /\ inv[i].writes = IF inv[i].outcome = "success" THEN 1 ELSE 0
        /\ inv[i].outcome = "success" => inv[i].pc = "done"
        /\ (inv[i].outcome = "success" /\ ~inv[i].selectionOnly
              /\ editor.writes = inv[i].writes) =>
               editor.value = inv[i].result.corrected

C10_Witness ==
    \E i \in Invocations :
        /\ inv[i].outcome = "success"
        /\ ~inv[i].selectionOnly
        /\ inv[i].writes = 1
        /\ inv[i].result.corrected # inv[i].docAtStart
        /\ editor.from < editor.to

\* C11: after a successful selection command that alone wrote the document,
\* the document is the text read at the trigger with the range selected then
\* replaced by the corrected text, wherever the selection has moved since.
C11_OriginalRangeReplaced ==
    \A i \in Invocations :
        (inv[i].outcome = "success" /\ inv[i].selectionOnly
           /\ editor.writes = inv[i].writes) =>
            editor.value =
                SubSeq(inv[i].docAtStart, 1, inv[i].fromAtStart)
                  \o inv[i].result.corrected
                  \o SubSeq(inv[i].docAtStart, inv[i].toAtStart + 1,
                            Len(inv[i].docAtStart))

\* C12: an invocation whose call of callLLMForCorrection failed, whatever the
\* cause, has emitted after the processing message exactly one notice and one
\* status message, the generic error message, and autoCorrectText has returned
\* to its caller without an error.
C12_OneGenericFailureReport ==
    \A i \in Invocations :
        inv[i].outcome = "failure" =>
            /\ inv[i].pc = "done"
            /\ inv[i].exit = "returned"
            /\ inv[i].notices = <<ProcessingMessage, ErrorMessage>>
            /\ inv[i].statuses = <<ProcessingMessage, ErrorMessage>>
            /\ inv[i].thrown \in {"MissingCredential", "CorrectionFailed"}

C12_Witness ==
    \E i \in Invocations :
        /\ inv[i].outcome = "failure"
        /\ inv[i].exit = "returned"
        /\ NoSeparatorAnswer(i)
        /\ inv[i].notices = <<ProcessingMessage, ErrorMessage>>

\* C13: the requests of one invocation all carry the same key, layout and
\* model (the first is issued in the step that triggers the invocation, so
\* these are the settings of that moment).
C13_RequestsShareSettings ==
    \A i \in Invocations :
        \A p, q \in inv[i].sent : p = q

\* C14: when an invocation that passed the empty-text check returns, the
\* status-bar text is empty, whether it succeeded or failed.
C14_StatusEmptyAtReturn ==
    \A i \in Invocations :
        (inv[i].pc = "done" /\ inv[i].outcome # "empty") =>
            inv[i].statusAtReturn = ""

\* C15: the corrected text of a successful result holds no occurrence of the
\* separator, whatever the answer was.
C15_CorrectedHasNoSeparator ==
    \A i \in Invocations :
        inv[i].outcome = "success" =>
            ~Contains(inv[i].result.corrected, Separator)

\* A success on an answer that held the separator more than once.
C15_Witness ==
    \E i \in Invocations :
        /\ inv[i].outcome = "success"
        /\ inv[i].lastResp.hasSep
        /\ inv[i].lastResp.parts >= 3

\* The delays before attempts 2..k, in milliseconds: 1000, ..., 1000 * (k - 1).
DelaysBefore(k) == [j \in 1..(k - 1) |-> 1000 * j]

\* C16: an invocation never issues more than three requests; one that
\* succeeded at attempt k issued exactly k requests and waited exactly the
\* delays 1 s, ..., (k - 1) s in that order, and while it runs the requests
\* and delays are those of the attempts made so far.
C16_RequestsAndDelaysPerAttempt ==
    \A i \in Invocations :
        /\ inv[i].requests <= 3
        /\ inv[i].attempt <= 3
        /\ inv[i].outcome = "success" =>
               /\ inv[i].requests = inv[i].attempt
               /\ inv[i].delays = DelaysBefore(inv[i].attempt)
        /\ inv[i].pc = "request" =>
               /\ inv[i].requests = inv[i].attempt
               /\ inv[i].delays = DelaysBefore(inv[i].attempt)

\* The third attempt is the first to succeed.
C16_Witness ==
    \E i \in Invocations :
        /\ inv[i].outcome = "success"
        /\ inv[i].attempt = 3
        /\ inv[i].requests = 3
        /\ inv[i].delays = <<1000, 2000>>

\* autoCorrectText has returned for invocation i in one of its three ways:
\* nothing to correct, success (written once and reported), or failure
\* (reported, nothing written).
Returned(i) ==
    /\ inv[i].pc = "done"
    /\ inv[i].exit = "returned"
    /\ \/ /\ inv[i].outcome = "empty"
          /\ inv[i].notices = <<"No text to correct">>
          /\ inv[i].writes = 0
       \/ /\ inv[i].outcome = "success"
          /\ inv[i].notices = <<ProcessingMessage, SuccessMessage>>
          /\ inv[i].writes = 1
       \/ /\ inv[i].outcome = "failure"
          /\ inv[i].notices = <<ProcessingMessage, ErrorMessage>>
          /\ inv[i].writes = 0

\* C17: if every request settles and every backoff timer fires, every
\* invocation that was triggered eventually returns, as nothing-to-correct,
\* as a reported success or as a reported failure.
C17_EveryInvocationReturns ==
    \A i \in Invocations : (inv[i].pc # "idle") ~> Returned(i)

\* An invocation returned after having waited for a backoff timer.
C17_Witness ==
    \E i \in Invocations :
        /\ Returned(i)
        /\ inv[i].outcome = "success"
        /\ Len(inv[i].delays) >= 1

\* Where the separator occurs in a message content.
Occurrences(c) == {q \in 1..Len(c) : MatchesAt(c, Separator, q)}

Before(c, q) == SubSeq(c, 1, q - 1)

After(c, q) == SubSeq(c, q + Len(Separator), Len(c))

\* x is a with the blanks at its two ends removed.
IsTrimOf(x, a) ==
    /\ IsTrimmed(x)
    /\ \E p \in 0..(Len(a) - Len(x)) :
          /\ SubSeq(a, p + 1, p + Len(x)) = x
          /\ \A k \in 1..Len(a) :
                (k <= p \/ k > p + Len(x)) => a[k] \in Whitespace

\* The last answer of invocation i was a 200 with a message content.
Answered(i) ==
    /\ ~inv[i].lastResp.threw
    /\ StatusOk(inv[i].lastResp.status)
    /\ inv[i].lastResp.content # Undefined

\* C18 as stated: whenever the content of a 200 answer is A, the separator,
\* B, with the separator in neither A nor B, the call returns on that attempt
\* the pair (A trimmed, B trimmed).
C18_AnyDecompositionReturned ==
    \A i \in Invocations :
        Answered(i) =>
            \A q \in Occurrences(inv[i].lastResp.content) :
                LET A == Before(inv[i].lastResp.content, q)
                    B == After(inv[i].lastResp.content, q)
                IN  (~Contains(A, Separator) /\ ~Contains(B, Separator)) =>
                        /\ inv[i].outcome = "success"
                        /\ IsTrimOf(inv[i].result.corrected, A)
                        /\ IsTrimOf(inv[i].result.changes, B)

\* C18, amended: whenever the content of a 200 answer holds the separator at
\* exactly one position, with A before it and B after it, the call returns on
\* that attempt the pair (A trimmed, B trimmed).
C18_SingleOccurrenceReturned ==
    \A i \in Invocations :
        (Answered(i) /\ Cardinality(Occurrences(inv[i].lastResp.content)) = 1) =>
            \A q \in Occurrences(inv[i].lastResp.content) :
                /\ inv[i].pc = "done"
                /\ inv[i].outcome = "success"
                /\ IsTrimOf(inv[i].result.corrected,
                            Before(inv[i].lastResp.content, q))
                /\ IsTrimOf(inv[i].result.changes,
                            After(inv[i].lastResp.content, q))

\* A content with one separator and a blank at the end of the corrected half
\* was answered, at the second attempt.
C18_Witness ==
    \E i \in Invocations :
        /\ Answered(i)
        /\ inv[i].attempt = 2
        /\ inv[i].outcome = "success"
        /\ \E q \in Occurrences(inv[i].lastResp.content) :
              /\ Occurrences(inv[i].lastResp.content) = {q}
              /\ TrimEnd(Before(inv[i].lastResp.content, q))
                     # Before(inv[i].lastResp.content, q)

\* C19: however invocations overlap, at most one indicator timer is live, the
\* processingIndicator field is non-null exactly when a timer is live (and
\* then holds that timer), and no timer is live once no invocation is running.
C19_OneTimerNoLeak ==
    /\ Cardinality(ui.liveTimers) <= 1
    /\ (ui.processingIndicator # Null) <=> (ui.liveTimers # {})
    /\ ui.processingIndicator # Null => ui.liveTimers = {ui.processingIndicator}
    /\ (\A i \in Invocations : ~Processing(i)) => ui.liveTimers = {}

\* Two invocations overlapped (the later start replaced the earlier timer, the
\* later finish found the indicator stopped) and both have returned.
C19_Witness ==
    /\ \A i \in {1, 2} : inv[i].pc = "done" /\ inv[i].indicatorStarted
    /\ \E i \in {1, 2} : inv[i].indicatorAtResult = "stopped"
    /\ ui.liveTimers = {}

\* C20: while invocations overlap, the indicator runs as long as one of them
\* is still waiting for its call.
C20_IndicatorRunsWhileAnyProcessing ==
    (\E i \in Invocations : Processing(i)) => ui.liveTimers # {}

====
